---- MODULE Spec2Model ----
(***************************************************************************)
(* Model of the superdesk.archive module                                   *)
(* (client/app/scripts/superdesk-archive/module.js): the SpikeService      *)
(* (spike / unspike), the archiveContent activity controller, the          *)
(* promises of the api requests they issue, and the users resource         *)
(* described by the "User Resource" feature.                               *)
(***************************************************************************)
EXTENDS Naturals, Sequences, FiniteSets, Bags, TLC

\* ---------------------------------------------------------------- bounds
MaxRequests == 3      \* requests issued in one behaviour
MaxUserOps == 4       \* requests sent to the users resource in one behaviour

\* ------------------------------------------------------------ value sets
Null == "null"                         \* undefined / null / absent field
Items == {"i1", "i2"}                  \* the item objects (by reference)
Ids == {"a", "b"}                      \* values of item._id
Desks == {"d1", "d2"}                  \* values of desks.getCurrentDeskId()
Responses == {"r1", "r2"}              \* rejection payloads
ArchiveItems == [task_id : {"t1", "t2"}, created : {"c1"}]  \* created resources
Actions == {"spike", "unspike", "archiveContent"}

SPIKE_RESOURCE == "archive_spike"
UNSPIKE_RESOURCE == "archive_unspike"
INGEST_RESOURCE == "archiveIngest"

VARIABLES
    items,        \* item object -> its fields
    selection,    \* $location.search()._id
    pending,      \* bag of the requests whose promise is not settled yet
    issued,       \* number of requests issued so far
    invocations,  \* number of controller invocations so far
    last,         \* the step taken last (for a callback: with the selection
                  \* it started from, and whether it repeats an unspike)
    unspiked,     \* item -> snapshot taken when a successful unspike completed
    users,        \* the users resource: username -> stored document
    response,     \* the last response of the users resource
    userOps       \* number of requests sent to the users resource

userVars == <<users, response, userOps>>
vars == <<items, selection, pending, issued, invocations, last, unspiked,
          users, response, userOps>>

NoArchiveItem == [task_id |-> Null, created |-> Null]

NoActioning == [a \in Actions |-> FALSE]

Guid(i) == IF i = "i1" THEN "g1" ELSE "g2"

NewItem(i, id, st) ==
    [_id |-> id, guid |-> Guid(i), state |-> st, actioning |-> NoActioning,
     error |-> Null, task_id |-> Null, created |-> Null]

NoStep ==
    [kind |-> "init", op |-> Null, item |-> Null, payload |-> Null,
     task_id |-> Null, created |-> Null, before |-> Null,
     repeat |-> FALSE]

\* ------------------------------------------------------------- api layer
\* A request is <<resource, method, item, data>>.
\* api.update(resource, item, diff): one request, a promise left pending.
ApiUpdate(resource, i, diff) == <<resource, "update", i, diff>>

\* api.archiveIngest.create(data): one request, a promise left pending.
ApiCreate(resource, data) == <<resource, "create", Null, data>>

\* ------------------------------------------------- handlers on one item
SpikeResolvedWrongFlag(item) ==
    [item EXCEPT !.actioning = [@ EXCEPT !["unspike"] = FALSE]]

\* spike: success callback, the item part.
SpikeResolved(item) ==
    [item EXCEPT !.actioning = [@ EXCEPT !["spike"] = FALSE]]

SpikeResolvedSearchAlways(item, search) == Null

SpikeResolvedSearchSelects(item, search) ==
    IF search = item._id THEN Null ELSE item._id

\* spike: success callback, the $location part.
SpikeResolvedSearch(item, search) ==
    IF search = item._id THEN Null ELSE search

SpikeRejectedKeepsFlag(item, resp) == [item EXCEPT !.error = resp]

\* spike: error callback.
SpikeRejected(item, resp) ==
    [item EXCEPT !.error = resp, !.actioning = [@ EXCEPT !["spike"] = FALSE]]

UnspikeResolvedToggle(item) ==
    [item EXCEPT !.actioning = [@ EXCEPT !["unspike"] = FALSE],
                 !.state = IF @ = "spiked" THEN "normal" ELSE "spiked"]

\* unspike: success callback, the item part.
UnspikeResolved(item) ==
    [item EXCEPT !.actioning = [@ EXCEPT !["unspike"] = FALSE]]

UnspikeResolvedSearchAsSpike(item, search) ==
    IF search = item._id THEN Null ELSE search

\* unspike: success callback, the $location part (it is not touched).
UnspikeResolvedSearch(item, search) == search

UnspikeRejectedNoError(item, resp) ==
    [item EXCEPT !.actioning = [@ EXCEPT !["unspike"] = FALSE]]

\* unspike: error callback.
UnspikeRejected(item, resp) ==
    [item EXCEPT !.error = resp, !.actioning = [@ EXCEPT !["unspike"] = FALSE]]

ArchiveResolvedNoCreated(item, archiveItem) ==
    [item EXCEPT !.task_id = archiveItem.task_id,
                 !.actioning = [@ EXCEPT !["archiveContent"] = FALSE]]

\* archiveContent: success callback.
ArchiveResolved(item, archiveItem) ==
    [item EXCEPT !.task_id = archiveItem.task_id,
                 !.created = archiveItem.created,
                 !.actioning = [@ EXCEPT !["archiveContent"] = FALSE]]

\* archiveContent: error callback.
ArchiveRejected(item, resp) ==
    [item EXCEPT !.error = resp,
                 !.actioning = [@ EXCEPT !["archiveContent"] = FALSE]]

\* The requests each controller issues, in order.
SpikeRequests(i) == <<ApiUpdate(SPIKE_RESOURCE, i, {<<"state", "spiked">>})>>
UnspikeRequests(i) == <<ApiUpdate(UNSPIKE_RESOURCE, i, {})>>
ArchiveRequests(item, desk) ==
    <<ApiCreate(INGEST_RESOURCE, {<<"guid", item.guid>>, <<"desk", desk>>})>>

RejectedRequestsRetry(req) == <<req>>

\* The requests an error callback issues (none: a rejection is not retried).
RejectedRequests(req) == <<>>

\* An activity registered with monitor: 'true': the activity framework marks
\* the item as being actioned before it invokes the controller.
Monitor(item, a) ==
    [item EXCEPT !.actioning = [@ EXCEPT ![a] = TRUE]]

\* A pending promise: the activity and item object whose callbacks are
\* attached to it, and the request it waits for.
Promise(a, i, req) == [op |-> a, item |-> i, request |-> req]

Promises(a, i, reqs) ==
    LET Add[k \in 0..Len(reqs)] ==
            IF k = 0 THEN EmptyBag
            ELSE Add[k - 1] (+) SetToBag({Promise(a, i, reqs[k])})
    IN  Add[Len(reqs)]

\* ------------------------------------------------------ users resource
Usernames == {"foo", "bar"}
Passwords == {"bar", "secret"}
FirstNames == {"Foo"}

NoResponse == [op |-> Null, key |-> Null, status |-> 0, body |-> {}]

\* The document stored for a new user.
NewUser(u, pw) == [username |-> u, password |-> pw]

\* The self link of a user, as the path segments of /users/{username}.
SelfLink(u) == <<"users", u>>

RepresentationWithPassword(doc) ==
    [f \in DOMAIN doc \cup {"_links"} |->
        IF f = "_links" THEN SelfLink(doc.username) ELSE doc[f]]

\* The representation of a stored user in a response: the password is
\* write-only, and the self link is derived from the username.
Representation(doc) ==
    [f \in (DOMAIN doc \ {"password"}) \cup {"_links"} |->
        IF f = "_links" THEN SelfLink(doc.username) ELSE doc[f]]

\* A partial update: the changed fields replace or extend the stored ones.
Patched(doc, f, v) ==
    [g \in DOMAIN doc \cup {f} |-> IF g = f THEN v ELSE doc[g]]

Snapshot(item, sel) == [item |-> item, selection |-> sel]

\* ------------------------------------------------------------------ Init
InitUsers ==
    /\ users = <<>>
    /\ response = NoResponse
    /\ userOps = 0

InitItems ==
    /\ \E id \in Ids :
          items = [i \in Items |->
                     IF i = "i1" THEN NewItem(i, "a", "spiked")
                     ELSE NewItem(i, id, "normal")]
    /\ selection \in Ids \cup {Null}
    /\ pending = EmptyBag
    /\ issued = 0
    /\ invocations = 0
    /\ last = NoStep
    /\ unspiked = [i \in Items |-> {}]

Init == InitItems /\ InitUsers

\* --------------------------------------------------------------- actions
\* The user triggers activity a on item i: the framework marks the item and
\* invokes the controller, which issues its requests and returns.
Run(i, a, input, reqs) ==
    /\ issued + Len(reqs) <= MaxRequests
    /\ items' = [items EXCEPT ![i] = Monitor(@, a)]
    /\ pending' = pending (+) Promises(a, i, reqs)
    /\ issued' = issued + Len(reqs)
    /\ invocations' = invocations + 1
    /\ last' = [NoStep EXCEPT !.kind = "invoked", !.op = a, !.item = i,
                                !.payload = input]
    /\ unspiked' = [j \in Items |->
                      IF j = i /\ a = "unspike" THEN unspiked[j] ELSE {}]
    /\ UNCHANGED selection
    /\ UNCHANGED userVars

\* The spike activity: spike.spike(data.item).
Spike(i) == Run(i, "spike", Null, SpikeRequests(i))

\* The unspike activity: spike.unspike(data.item).
Unspike(i) == Run(i, "unspike", Null, UnspikeRequests(i))

\* The archiveContent activity, with d the value of desks.getCurrentDeskId().
ArchiveContent(i, d) ==
    Run(i, "archiveContent", d, ArchiveRequests(items[i], d))

\* A promise is settled and its callback has run.
Settle(p, kind, payload, x, newItem, newSelection, reqs) ==
    LET i == p.item
        ok == kind = "resolved" /\ p.op = "unspike"
    IN  /\ issued + Len(reqs) <= MaxRequests
        /\ items' = [items EXCEPT ![i] = newItem]
        /\ selection' = newSelection
        /\ pending' = (pending (-) SetToBag({p})) (+) Promises(p.op, i, reqs)
        /\ issued' = issued + Len(reqs)
        /\ last' = [kind |-> kind, op |-> p.op, item |-> i,
                    payload |-> payload, task_id |-> x.task_id,
                    created |-> x.created, before |-> selection,
                    repeat |-> ok /\ unspiked[i] # {}]
        /\ unspiked' = [j \in Items |->
              IF j = i /\ ok
              THEN (IF unspiked[j] = {}
                    THEN {Snapshot(newItem, newSelection)} ELSE unspiked[j])
              ELSE {}]
        /\ UNCHANGED invocations
        /\ UNCHANGED userVars

\* The request of a spike is answered with success.
SpikeResolve(p) ==
    /\ BagIn(p, pending) /\ p.op = "spike"
    /\ Settle(p, "resolved", Null, NoArchiveItem, SpikeResolved(items[p.item]),
              SpikeResolvedSearch(items[p.item], selection), <<>>)

\* The request of a spike is rejected with response r.
SpikeReject(p, r) ==
    /\ BagIn(p, pending) /\ p.op = "spike"
    /\ Settle(p, "rejected", r, NoArchiveItem, SpikeRejected(items[p.item], r),
              selection, RejectedRequests(p.request))

\* The request of an unspike is answered with success.
UnspikeResolve(p) ==
    /\ BagIn(p, pending) /\ p.op = "unspike"
    /\ Settle(p, "resolved", Null, NoArchiveItem, UnspikeResolved(items[p.item]),
              UnspikeResolvedSearch(items[p.item], selection), <<>>)

\* The request of an unspike is rejected with response r.
UnspikeReject(p, r) ==
    /\ BagIn(p, pending) /\ p.op = "unspike"
    /\ Settle(p, "rejected", r, NoArchiveItem, UnspikeRejected(items[p.item], r),
              selection, RejectedRequests(p.request))

\* The create request of archiveContent is answered with the new resource x.
ArchiveResolve(p, x) ==
    /\ BagIn(p, pending) /\ p.op = "archiveContent"
    /\ Settle(p, "resolved", Null, x, ArchiveResolved(items[p.item], x),
              selection, <<>>)

\* The create request of archiveContent is rejected with response r.
ArchiveReject(p, r) ==
    /\ BagIn(p, pending) /\ p.op = "archiveContent"
    /\ Settle(p, "rejected", r, NoArchiveItem, ArchiveRejected(items[p.item], r),
              selection, RejectedRequests(p.request))

\* The user opens another item (or none) in the preview.
Navigate(id) ==
    /\ selection # id
    /\ selection' = id
    /\ last' = [NoStep EXCEPT !.kind = "navigated"]
    /\ unspiked' = [j \in Items |-> {}]
    /\ UNCHANGED <<items, pending, issued, invocations>>
    /\ UNCHANGED userVars

\* ------------------------------------------------ users resource actions
UserOp(op, u, status, body, newUsers) ==
    /\ userOps < MaxUserOps
    /\ userOps' = userOps + 1
    /\ users' = newUsers
    /\ response' = [op |-> op, key |-> u, status |-> status, body |-> body]
    /\ UNCHANGED <<items, selection, pending, issued, invocations, last,
                   unspiked>>

\* POST /users {username, password}
PostUser(u, pw) ==
    /\ u \notin DOMAIN users
    /\ LET doc == NewUser(u, pw)
       IN  UserOp("POST", u, 201, {Representation(doc)},
                  [v \in DOMAIN users \cup {u} |->
                      IF v = u THEN doc ELSE users[v]])

\* GET /users
ListUsers ==
    UserOp("LIST", Null, 200, {Representation(users[u]) : u \in DOMAIN users},
           users)

\* GET /users/{username}
GetUser(u) ==
    IF u \in DOMAIN users
    THEN UserOp("GET", u, 200, {Representation(users[u])}, users)
    ELSE UserOp("GET", u, 404, {}, users)

\* PATCH /users/{username} {first_name}
PatchUser(u, fn) ==
    /\ u \in DOMAIN users
    /\ UserOp("PATCH", u, 200, {},
              [users EXCEPT ![u] = Patched(@, "first_name", fn)])

\* DELETE /users/{username}
DeleteUser(u) ==
    /\ u \in DOMAIN users
    /\ UserOp("DELETE", u, 200, {},
              [v \in DOMAIN users \ {u} |-> users[v]])

InitUsersOnly ==
    /\ items = [i \in Items |-> NewItem(i, "a", "normal")]
    /\ selection = Null
    /\ pending = EmptyBag
    /\ issued = 0
    /\ invocations = 0
    /\ last = NoStep
    /\ unspiked = [i \in Items |-> {}]
    /\ InitUsers

NextUsers ==
    \/ \E u \in Usernames, pw \in Passwords : PostUser(u, pw)
    \/ ListUsers
    \/ \E u \in Usernames : GetUser(u)
    \/ \E u \in Usernames, fn \in FirstNames : PatchUser(u, fn)
    \/ \E u \in Usernames : DeleteUser(u)

SpecUsers == InitUsersOnly /\ [][NextUsers]_vars

Next ==
    \/ \E i \in Items : Spike(i)
    \/ \E i \in Items : Unspike(i)
    \/ \E i \in Items, d \in Desks : ArchiveContent(i, d)
    \/ \E p \in BagToSet(pending) : SpikeResolve(p)
    \/ \E p \in BagToSet(pending), r \in Responses : SpikeReject(p, r)
    \/ \E p \in BagToSet(pending) : UnspikeResolve(p)
    \/ \E p \in BagToSet(pending), r \in Responses : UnspikeReject(p, r)
    \/ \E p \in BagToSet(pending), x \in ArchiveItems : ArchiveResolve(p, x)
    \/ \E p \in BagToSet(pending), r \in Responses : ArchiveReject(p, r)
    \/ \E id \in Ids \cup {Null} : Navigate(id)

Spec == Init /\ [][Next]_vars

\* The response to a request of activity a on item i is delivered.
Deliver(i, a) ==
    \E p \in BagToSet(pending) :
        /\ p.item = i /\ p.op = a
        /\ \/ SpikeResolve(p)
           \/ UnspikeResolve(p)
           \/ \E x \in ArchiveItems : ArchiveResolve(p, x)
           \/ \E r \in Responses :
                 SpikeReject(p, r) \/ UnspikeReject(p, r) \/ ArchiveReject(p, r)

\* The responses a promise can be settled with, each as
\* <<kind, rejection payload, task_id, created>>.
Outcomes(p) ==
    {<<"rejected", r, Null, Null>> : r \in Responses} \cup
    (IF p.op = "archiveContent"
     THEN {<<"resolved", Null, x.task_id, x.created>> : x \in ArchiveItems}
     ELSE {<<"resolved", Null, Null, Null>>})

\* The items and the selection, as <<items, selection>>, after the callback
\* of promise p has run on <<its, sel>> with outcome o.
Delivered(its, sel, p, o) ==
    LET item == its[p.item]
        ok == o[1] = "resolved"
        x == [task_id |-> o[3], created |-> o[4]]
        newItem ==
            IF p.op = "spike"
            THEN (IF ok THEN SpikeResolved(item) ELSE SpikeRejected(item, o[2]))
            ELSE IF p.op = "unspike"
            THEN (IF ok THEN UnspikeResolved(item)
                  ELSE UnspikeRejected(item, o[2]))
            ELSE (IF ok THEN ArchiveResolved(item, x)
                  ELSE ArchiveRejected(item, o[2]))
        newSelection ==
            IF ok /\ p.op = "spike" THEN SpikeResolvedSearch(item, sel)
            ELSE IF ok /\ p.op = "unspike"
            THEN UnspikeResolvedSearch(item, sel)
            ELSE sel
    IN  <<[its EXCEPT ![p.item] = newItem], newSelection>>

\* Every issued request eventually receives a response.
Responsive == \A i \in Items, a \in Actions : WF_vars(Deliver(i, a))

FairSpec == Spec /\ Responsive

\* ---------------------------------------------------------------- claims
InFlight(i, a) == \E p \in BagToSet(pending) : p.op = a /\ p.item = i

Flag(i, a) == items[i].actioning[a]

C2_FlagIffInFlight ==
    \A i \in Items, a \in Actions : Flag(i, a) <=> InFlight(i, a)

\* C3: after a rejection of spike or unspike with payload r, the item's
\* error is r and the flag of the action is false.
C3_RejectionRecorded ==
    (last.kind = "rejected" /\ last.op \in {"spike", "unspike"}) =>
        /\ items[last.item].error = last.payload
        /\ ~Flag(last.item, last.op)

C3_Witness ==
    /\ last.kind = "rejected" /\ last.op = "unspike"
    /\ items[last.item].error = "r2"

\* C4: a successful spike clears the selection when the selection equals
\* the item's _id at the time the response is delivered, and leaves the
\* selection as it was otherwise.
C4_SelectionOnSpike ==
    (last.kind = "resolved" /\ last.op = "spike") =>
        selection = IF last.before = items[last.item]._id
                    THEN Null ELSE last.before

C4_Witness ==
    /\ last.kind = "resolved" /\ last.op = "spike"
    /\ last.before = items[last.item]._id
    /\ selection = Null

\* C5: archiveContent issues one create request on the ingest resource with
\* the item's guid and the current desk id; its success copies task_id and
\* created of the new resource onto the item and clears the flag; its
\* rejection records the payload as error, clears the flag and leaves
\* task_id and created as they were.
C5_ArchiveContent ==
    [][LET l == last'
           i == l.item
       IN  l.op = "archiveContent" =>
             /\ l.kind = "invoked" =>
                   /\ issued' = issued + 1
                   /\ pending' = pending (+) SetToBag({
                         [op |-> "archiveContent", item |-> i,
                          request |->
                              <<"archiveIngest", "create", Null,
                                {<<"guid", items[i].guid>>,
                                 <<"desk", l.payload>>}>>]})
             /\ l.kind = "resolved" =>
                   /\ items'[i].task_id = l.task_id
                   /\ items'[i].created = l.created
                   /\ ~items'[i].actioning["archiveContent"]
             /\ l.kind = "rejected" =>
                   /\ items'[i].error = l.payload
                   /\ ~items'[i].actioning["archiveContent"]
                   /\ items'[i].task_id = items[i].task_id
                   /\ items'[i].created = items[i].created]_vars

C5_Witness ==
    /\ last.kind = "rejected" /\ last.op = "archiveContent"
    /\ items[last.item].task_id = "t2"
    /\ items[last.item].error = last.payload

\* C6: when the operation resolved last on an item succeeded, the item's
\* error is absent.
C6_ErrorClearedBySuccess ==
    last.kind = "resolved" => items[last.item].error = Null

\* C7: no step of spike or unspike changes a field of another item, and no
\* step of unspike changes the selection.
C7_Frame ==
    [][LET l == last'
       IN  l.op \in {"spike", "unspike"} =>
             /\ \A j \in Items \ {l.item} : items'[j] = items[j]
             /\ l.op = "unspike" => selection' = selection]_vars

C7_Witness ==
    /\ last.kind = "resolved" /\ last.op = "unspike"
    /\ selection = items[last.item]._id

\* C8: every invocation of spike issues exactly one update request on
\* archive_spike with the item and {state: 'spiked'}; every invocation of
\* unspike issues exactly one update request on archive_unspike with the
\* item and an empty payload; a rejection issues no request; the number of
\* requests issued equals the number of invocations.
C8_OneRequestPerInvocation ==
    [][LET l == last'
           i == l.item
       IN  /\ (l.kind = "invoked" /\ l.op = "spike") =>
                 /\ issued' = issued + 1
                 /\ pending' = pending (+) SetToBag({
                       [op |-> "spike", item |-> i,
                        request |-> <<"archive_spike", "update", i,
                                      {<<"state", "spiked">>}>>]})
           /\ (l.kind = "invoked" /\ l.op = "unspike") =>
                 /\ issued' = issued + 1
                 /\ pending' = pending (+) SetToBag({
                       [op |-> "unspike", item |-> i,
                        request |-> <<"archive_unspike", "update", i, {}>>]})
           /\ l.kind = "rejected" =>
                 /\ issued' = issued
                 /\ BagCardinality(pending') = BagCardinality(pending) - 1
           /\ issued' = invocations']_vars

C8_Witness ==
    /\ last.kind = "rejected" /\ last.op \in {"spike", "unspike"}
    /\ invocations = 2 /\ issued = 2
    /\ BagCardinality(pending) = 1

\* C9: a successful unspike that follows a completed successful unspike of
\* the same item, with nothing else in between, leaves the item and the
\* selection as the first one left them, with actioning.unspike false.
C9_UnspikeIdempotent ==
    last.repeat =>
        /\ unspiked[last.item] = {Snapshot(items[last.item], selection)}
        /\ ~Flag(last.item, "unspike")

C9_Witness ==
    /\ last.repeat /\ last.kind = "resolved" /\ last.op = "unspike"
    /\ unspiked[last.item] # {}
    /\ items[last.item].state = "spiked"

\* C10: the response to POST /users exposes the username and the self link
\* /users/{username}, and no response of the users resource holds a
\* password field.
C10_PasswordWriteOnly ==
    /\ \A d \in response.body : "password" \notin DOMAIN d
    /\ response.op = "POST" =>
          /\ response.status = 201
          /\ response.body = {[f \in {"username", "_links"} |->
                                 IF f = "username" THEN response.key
                                 ELSE <<"users", response.key>>]}

C10_Witness ==
    /\ response.op = "GET" /\ response.status = 200
    /\ "password" \in DOMAIN users[response.key]
    /\ \E d \in response.body : d.username = response.key

\* C11: when every issued request eventually receives a response, a flag
\* actioning[a] that is true is eventually false; and the only steps that
\* take actioning[a] of an item from true to false are the deliveries of a
\* response to a request of a on that item (no timeout, no cancellation).
C11_PendingThenIdle ==
    /\ \A i \in Items, a \in Actions : Flag(i, a) ~> ~Flag(i, a)
    /\ [][\A i \in Items, a \in Actions :
            (Flag(i, a) /\ ~items'[i].actioning[a]) =>
                /\ last'.kind \in {"resolved", "rejected"}
                /\ last'.item = i /\ last'.op = a
                /\ InFlight(i, a)]_vars

C11_Witness ==
    /\ last.kind = "resolved" /\ last.op = "archiveContent"
    /\ ~Flag(last.item, "archiveContent")
    /\ pending = EmptyBag /\ issued = 1

\* C12: for pending operations on two distinct items with distinct _id,
\* delivering their responses in either order leaves the same items and the
\* same selection; and every delivery step of the module is the callback
\* the comparison is made with.
C12_OrderIndependent ==
    /\ [](\A p, q \in BagToSet(pending) :
            (p.item # q.item /\ items[p.item]._id # items[q.item]._id) =>
                \A o \in Outcomes(p), u \in Outcomes(q) :
                    LET pq == Delivered(items, selection, p, o)
                        qp == Delivered(items, selection, q, u)
                    IN  Delivered(pq[1], pq[2], q, u) =
                        Delivered(qp[1], qp[2], p, o))
    /\ [][last'.kind \in {"resolved", "rejected"} =>
            \E p \in BagToSet(pending) :
                /\ p.item = last'.item /\ p.op = last'.op
                /\ <<items', selection'>> =
                      Delivered(items, selection, p,
                                <<last'.kind, last'.payload, last'.task_id,
                                  last'.created>>)]_vars

C12_Witness ==
    /\ last.kind = "rejected" /\ last.op = "spike"
    /\ \E q \in BagToSet(pending) :
          /\ q.op = "spike" /\ q.item # last.item
          /\ items[q.item]._id # items[last.item]._id
          /\ selection = items[q.item]._id

====
